---------------------------- MODULE Spec2Model ----------------------------
(***************************************************************************)
(* A model of src/DMC3/model.py: the decoder of the DMC3 model container   *)
(* (Model, Object, Mesh, Skeleton, Bone) and the scene construction        *)
(* (setup_model, setup_bones, setup_objects) driven by Import.             *)
(*                                                                         *)
(* A byte source is modelled by the values its fields decode to: the tag,  *)
(* the counts of the header, the object table (one record per 64 bytes     *)
(* from 0x40), each object's mesh table and the three skeleton tables.     *)
(* The reader functions of common.io and ParseVerts of common.meshutils    *)
(* are not part of src/; ParseVerts is modelled from section 4.5 of the    *)
(* specification.                                                          *)
(***************************************************************************)
EXTENDS Integers, Sequences, FiniteSets, TLC

\* ------------------------------------------------------------ bounds
\* objects in a file's object table, meshes in an object's mesh table,
\* vertices in a mesh
MaxObjects == 3
MaxMeshes == 2
MaxVerts == 1
\* bones in a file whose skeleton tables are arbitrary
MaxBones == 2
\* bones in a file whose child-object table is arbitrary
MaxChildBones == 1
\* objects in a file of the two-Model scenarios
MaxApiObjects == 2
\* ParseObjects calls on one Model
MaxParseCalls == 2

\* ------------------------------------------------- program constants
\* Model.ParseObjects: self.f.seek(0x40)
ObjTableBase == 64
\* Object.__init__: 1 + 1 + 2 + 4 + 8 + 4 bytes read, 28 skipped, 4 floats
ObjectRecordSize == 1 + 1 + 2 + 4 + 8 + 4 + 28 + (4 * 4)
\* Bone.__init__: self.parent = None (no signed byte decodes to this value)
None == -129
\* the root sentinel of setup_bones (joint.parent != -1) and the "no child"
\* sentinel of setup_model (child_idx != -1)
NoIndex == 0 - 1

\* the baked/static tag tested by Mesh.__init__ and setup_objects
TagSCM == "SCM "
\* the tag tested by setup_model
TagMOD == "MOD "
\* a tag that is neither
TagOther == "XXXX"
Tags == {TagSCM, TagMOD, TagOther}

\* ------------------------------------------------------ Python lists
Max(a, b) == IF a >= b THEN a ELSE b

\* lst[k] raises IndexError unless -len <= k < len
InRange(k, n) == (0 - n) <= k /\ k < n

\* the 1-based position lst[k] addresses, negative k counting from the end
PyIndex(k, n) == IF k < 0 THEN n + k + 1 ELSE k + 1

\* [x] * n: n copies, none when n <= 0
Repeat(x, n) == [i \in 1..Max(n, 0) |-> x]

\* -------------------------------------------------------------- files
\* What a byte source decodes to. recs[i] is the object record at byte
\* offset ObjTableBase + ObjectRecordSize * (i - 1); meshVerts[i] is the
\* mesh table recs[i].mshOffs points to, one vertCount per mesh header;
\* the three skeleton tables hold boneCount signed bytes each.
MkFile(t, tables, n, h, o, c) ==
    [Id |-> t, objectCount |-> Len(tables), boneCount |-> n,
     recs |-> [i \in 1..Len(tables) |->
                 [meshCount |-> Len(tables[i]), tableIdx |-> i - 1]],
     meshVerts |-> tables,
     hierarchy |-> h, hierarchyOrder |-> o, childIndices |-> c]

\* every bone a root, the order table the identity, no bone with a child
Roots(n) == Repeat(NoIndex, n)
Identity(n) == [i \in 1..n |-> i - 1]
NoChildren(n) == Repeat(NoIndex, n)

\* a file whose skeleton tables are arbitrary bytes; one object, one mesh
SkelTables(n) == [1..n -> (0 - 1)..n]

SkelFile(t, n, h, o) == MkFile(t, <<<<1>>>>, n, h, o, NoChildren(n))

\* a file whose object table and child-object table are arbitrary; one
\* vertex in every mesh
MeshCountLists(maxLen) == UNION {[1..k -> 0..MaxMeshes] : k \in 0..maxLen}
ChildTables(n) == [1..n -> (0 - 1)..MaxObjects]

ObjFile(t, cs, n, c) ==
    MkFile(t, [i \in 1..Len(cs) |-> Repeat(1, cs[i])], n, Roots(n), Identity(n), c)

\* a file with one object whose mesh table is arbitrary
VertCountLists == UNION {[1..k -> (0 - 1)..MaxVerts] : k \in 0..MaxMeshes}

MeshFile(t, vs, n) == MkFile(t, <<vs>>, n, Roots(n), Identity(n), NoChildren(n))

\* a file of the two-Model scenarios: a recognized tag, no bone has a
\* child object
ApiFile(t, cs, n) == ObjFile(t, cs, n, NoChildren(n))

\* -------------------------------------------------------------- state
VARIABLES
    pc,        \* where the running Import call is
    model,     \* the module global "model" (Import: global model)
    other,     \* a Model a caller constructed without Import
    scene,     \* the host's data: collections, armatures, mesh objects
    build,     \* the locals of the running setup_model
    err,       \* the exception that ended Import
    apiErr     \* the exception that ended the last direct call

vars == <<pc, model, other, scene, build, err, apiErr>>

\* the name is not bound: NameError for the global, nothing for "other"
NoModel == [Id |-> "unbound"]
NoSkeleton == [boneCount |-> 0, hierarchy |-> <<>>, hierarchyOrder |-> <<>>,
               childIndices |-> <<>>, bones |-> <<>>, parents |-> <<>>]
EmptyScene == [collections |-> 0, armatures |-> 0, meshObjects |-> 0]
NoBuild == [bones |-> <<>>, objects |-> <<>>, made |-> <<>>, attached |-> <<>>]

\* ------------------------------------------------------------- Model
\* Model.__init__: the header fields; no check of the tag
NewModel(file) ==
    [f |-> file, Id |-> file.Id, objectCount |-> file.objectCount,
     boneCount |-> file.boneCount, objects |-> <<>>,
     hasSkeleton |-> FALSE, skeleton |-> NoSkeleton]

\* Object.__init__ at cursor position p: the record found there, and the
\* position it was read from. self.meshes is not assigned (hasMeshes).
GarbageRec == [meshCount |-> 0, tableIdx |-> 0 - 1]

RecordAt(file, p) ==
    LET k == (p - ObjTableBase) \div ObjectRecordSize
    IN  IF p >= ObjTableBase /\ (p - ObjTableBase) % ObjectRecordSize = 0
           /\ k < Len(file.recs)
        THEN file.recs[k + 1]
        ELSE GarbageRec

NewObject(file, p, objectIdx) ==
    [objectIdx |-> objectIdx, meshCount |-> RecordAt(file, p).meshCount,
     tableIdx |-> RecordAt(file, p).tableIdx, recOffs |-> p,
     hasMeshes |-> FALSE, meshes |-> <<>>]

\* Model.ParseObjects: seek(0x40), then objectCount appends to self.objects
RECURSIVE ReadObjects(_, _, _, _)
ReadObjects(file, p, i, n) ==
    IF i >= n THEN <<>>
    ELSE <<NewObject(file, p, i)>> \o ReadObjects(file, p + ObjectRecordSize, i + 1, n)

ParseObjects(m) ==
    [m EXCEPT !.objects = @ \o ReadObjects(m.f, ObjTableBase, 0, m.objectCount)]

\* Mesh.__init__ with the test of the tag inverted
NewMeshSwapped(g, meshIdx, vertCount) ==
    [meshIdx |-> meshIdx, vertCount |-> vertCount,
     offs |-> IF g.Id = TagSCM THEN {"boneIndiciesOffs", "weightsOffs"}
                               ELSE {"uknOffs"},
     positions |-> Repeat("Vector", vertCount),
     normals |-> <<>>, UVs |-> <<>>, boneIndicies |-> <<>>, boneWeights |-> <<>>,
     vertColour |-> <<>>, triSkip |-> <<>>, faces |-> <<>>,
     vertGrp |-> Repeat("None", g.boneCount)]

\* Mesh.__init__ with vertGrp sized like positions, by the vertex count
NewMeshGroupsByVerts(g, meshIdx, vertCount) ==
    [meshIdx |-> meshIdx, vertCount |-> vertCount,
     offs |-> IF g.Id # TagSCM THEN {"boneIndiciesOffs", "weightsOffs"}
                               ELSE {"uknOffs"},
     positions |-> Repeat("Vector", vertCount),
     normals |-> <<>>, UVs |-> <<>>, boneIndicies |-> <<>>, boneWeights |-> <<>>,
     vertColour |-> <<>>, triSkip |-> <<>>, faces |-> <<>>,
     vertGrp |-> Repeat("None", vertCount)]

\* Mesh.__init__: the variant and the length of vertGrp come from the
\* global model g, not from the Model that owns the Object
NewMesh(g, meshIdx, vertCount) ==
    [meshIdx |-> meshIdx, vertCount |-> vertCount,
     offs |-> IF g.Id # TagSCM THEN {"boneIndiciesOffs", "weightsOffs"}
                               ELSE {"uknOffs"},
     positions |-> Repeat("Vector", vertCount),
     normals |-> <<>>, UVs |-> <<>>, boneIndicies |-> <<>>, boneWeights |-> <<>>,
     vertColour |-> <<>>, triSkip |-> <<>>, faces |-> <<>>,
     vertGrp |-> Repeat("None", g.boneCount)]

\* Object.ParseMeshes: seek(self.mshOffs), then meshCount headers
MeshTableOf(file, obj) ==
    IF obj.tableIdx >= 0 /\ obj.tableIdx < Len(file.meshVerts)
    THEN file.meshVerts[obj.tableIdx + 1] ELSE <<>>

ObjectParseMeshes(file, g, obj) ==
    [obj EXCEPT !.hasMeshes = TRUE,
                !.meshes = [j \in 1..Max(obj.meshCount, 0) |->
                              NewMesh(g, j - 1, MeshTableOf(file, obj)[j])]]

\* Model.ParseMeshes: for obj in self.objects. With the global unbound the
\* first Object that has a mesh raises NameError; the Objects before it
\* keep the (empty) lists they were given.
RECURSIVE ParseMeshesFrom(_, _, _)
ParseMeshesFrom(m, g, i) ==
    IF i > Len(m.objects) THEN [m |-> m, err |-> "none"]
    ELSE IF g = NoModel /\ m.objects[i].meshCount > 0
         THEN [m |-> m, err |-> "NameError"]
         ELSE ParseMeshesFrom(
                [m EXCEPT !.objects[i] = ObjectParseMeshes(m.f, g, m.objects[i])],
                g, i + 1)

ParseMeshes(m, g) == ParseMeshesFrom(m, g, 1)

\* ----------------------------------------------------------- Skeleton
\* Bone.__init__: parent starts as None
NewBone(idx) == [idx |-> idx, parent |-> None]

\* the remap done by position, bones[i].parent = hierarchy[i]: the decoder
\* the order table exists to rule out
AssignParentsPositional(bones, order, hier, i) ==
    [bones |-> [k \in 1..Len(bones) |-> [bones[k] EXCEPT !.parent = hier[k]]],
     err |-> "none"]

\* the remap loop of Skeleton.__init__ from entry i on:
\*   self.bones[self.hierarchyOrder[i]].parent = self.hierarchy[i]
RECURSIVE AssignParents(_, _, _, _)
AssignParents(bones, order, hier, i) ==
    IF i > Len(order) THEN [bones |-> bones, err |-> "none"]
    ELSE IF ~InRange(order[i], Len(bones))
         THEN [bones |-> bones, err |-> "IndexError"]
         ELSE AssignParents(
                [bones EXCEPT ![PyIndex(order[i], Len(bones))].parent = hier[i]],
                order, hier, i + 1)

\* Skeleton.__init__: the three tables, one Bone per transform in index
\* order, then the remap. Nothing validates the tables.
NewSkeleton(file, boneCount) ==
    LET n == Max(boneCount, 0)
        r == AssignParents([i \in 1..n |-> NewBone(i - 1)],
                           file.hierarchyOrder, file.hierarchy, 1)
    IN  [skeleton |-> [boneCount |-> boneCount,
                       hierarchy |-> file.hierarchy,
                       hierarchyOrder |-> file.hierarchyOrder,
                       childIndices |-> file.childIndices,
                       bones |-> r.bones,
                       parents |-> Repeat(NoIndex, boneCount)],
         err |-> r.err]

\* Model.ParseSkeleton: self.skeleton is assigned only when the
\* constructor returns
ParseSkeleton(m) ==
    LET r == NewSkeleton(m.f, m.boneCount)
    IN  IF r.err = "none"
        THEN [m |-> [m EXCEPT !.hasSkeleton = TRUE, !.skeleton = r.skeleton],
              err |-> "none"]
        ELSE [m |-> m, err |-> r.err]

\* --------------------------------------------------------- ParseVerts
\* common.meshutils.ParseVerts(mesh, f, Mod): vertCount entries in each
\* buffer of the variant Mod.Id selects
MeshParseVerts(Mod, msh) ==
    IF Mod.Id # TagSCM
    THEN [msh EXCEPT !.positions = Repeat("pos", msh.vertCount),
                     !.normals = Repeat("nrm", msh.vertCount),
                     !.UVs = Repeat("uv", msh.vertCount),
                     !.boneIndicies = Repeat(<<>>, msh.vertCount),
                     !.boneWeights = Repeat(<<>>, msh.vertCount)]
    ELSE [msh EXCEPT !.positions = Repeat("pos", msh.vertCount),
                     !.normals = Repeat("nrm", msh.vertCount),
                     !.UVs = Repeat("uv", msh.vertCount),
                     !.vertColour = Repeat("col", msh.vertCount)]

\* Model.ParseVerts and Model.ParseObjectVerts
ParseVerts(m) ==
    [m EXCEPT !.objects =
        [i \in 1..Len(m.objects) |->
            [m.objects[i] EXCEPT !.meshes =
                [j \in 1..Len(m.objects[i].meshes) |->
                    MeshParseVerts(m, m.objects[i].meshes[j])]]]]

\* -------------------------------------------------------- setup_bones
\* the parent loop of setup_bones from joint i on; links[i] is the index
\* of the edit bone made the parent of bone i, NoIndex for none
RECURSIVE LinkParents(_, _, _)
LinkParents(joints, links, i) ==
    IF i > Len(joints) THEN [links |-> links, err |-> "none"]
    ELSE IF joints[i].parent = NoIndex THEN LinkParents(joints, links, i + 1)
    ELSE IF joints[i].parent = None THEN [links |-> links, err |-> "TypeError"]
    ELSE IF ~InRange(joints[i].parent, Len(joints))
         THEN [links |-> links, err |-> "IndexError"]
    ELSE LinkParents(joints,
                     [links EXCEPT ![i] = PyIndex(joints[i].parent, Len(joints)) - 1],
                     i + 1)

setup_bones(joints) == LinkParents(joints, Repeat(NoIndex, Len(joints)), 1)

\* ------------------------------------------------------ setup_objects
\* the branch of setup_objects taken for one mesh
MeshPath(Mod) == IF Mod.Id # TagSCM THEN "weights" ELSE "colour"

\* the weight loop reads msh.boneIndicies[v] for every vertex of the mesh
\* built from msh.positions
MeshErr(Mod, msh) ==
    IF MeshPath(Mod) = "weights" /\ Len(msh.boneIndicies) < Len(msh.positions)
    THEN "IndexError" ELSE "none"

\* the two loops of setup_objects from Object i, Mesh j on. acc.objects is
\* the list returned, acc.last the local "object" (NoIndex: not bound yet),
\* acc.made the mesh objects created and linked so far.
RECURSIVE BuildObjects(_, _, _, _)
BuildObjects(Mod, acc, i, j) ==
    IF i > Len(Mod.objects) THEN acc
    ELSE IF j > Len(Mod.objects[i].meshes)
         THEN IF acc.last = NoIndex
              THEN [acc EXCEPT !.err = "UnboundLocalError"]
              ELSE BuildObjects(Mod, acc, i + 1, 1)
    ELSE LET msh == Mod.objects[i].meshes[j]
             made == [obj |-> i - 1, mesh |-> j - 1, path |-> MeshPath(Mod),
                      parent |-> IF j > 1 THEN acc.last ELSE NoIndex]
             nxt == [acc EXCEPT !.made = Append(@, made),
                                !.objects = IF j > 1 THEN @ ELSE Append(@, i - 1),
                                !.last = IF j > 1 THEN @ ELSE i - 1]
         IN  IF MeshErr(Mod, msh) # "none"
             THEN [nxt EXCEPT !.err = MeshErr(Mod, msh)]
             ELSE BuildObjects(Mod, nxt, i, j + 1)

setup_objects(Mod) ==
    BuildObjects(Mod, [objects |-> <<>>, made |-> <<>>, last |-> NoIndex, err |-> "none"], 1, 1)

\* -------------------------------------------------------- setup_model
\* the child loop of setup_model from bone i on: attached[i] is the entry
\* of "objects" made the child of bone i - 1, NoIndex for none
RECURSIVE AttachChildren(_, _, _, _)
AttachChildren(childIndices, objects, attached, i) ==
    IF i > Len(childIndices) THEN [attached |-> attached, err |-> "none"]
    ELSE IF childIndices[i] = NoIndex
         THEN AttachChildren(childIndices, objects, attached, i + 1)
    ELSE IF ~InRange(childIndices[i], Len(objects))
         THEN [attached |-> attached, err |-> "IndexError"]
    ELSE AttachChildren(childIndices, objects,
            [attached EXCEPT ![i] = objects[PyIndex(childIndices[i], Len(objects))]],
            i + 1)

setup_children(Mod, objects) ==
    IF Mod.Id # TagMOD
    THEN AttachChildren(Mod.skeleton.childIndices, objects,
                        Repeat(NoIndex, Len(Mod.skeleton.childIndices)), 1)
    ELSE [attached |-> Repeat(NoIndex, Len(Mod.skeleton.childIndices)), err |-> "none"]

\* ------------------------------------------------------------ actions
Init ==
    /\ pc = "idle"
    /\ model = NoModel
    /\ other = NoModel
    /\ scene = EmptyScene
    /\ build = NoBuild
    /\ err = "none"
    /\ apiErr = "none"

\* Import: global model; model = Model(f)
ImportModel ==
    /\ pc = "idle"
    /\ \E t \in Tags :
          \/ \E n \in 0..MaxBones :
                \E h \in SkelTables(n), o \in SkelTables(n) :
                   model' = NewModel(SkelFile(t, n, h, o))
          \/ \E n \in 0..MaxChildBones, cs \in MeshCountLists(MaxObjects) :
                \E c \in ChildTables(n) :
                   model' = NewModel(ObjFile(t, cs, n, c))
          \/ \E n \in 0..MaxBones, vs \in VertCountLists :
                model' = NewModel(MeshFile(t, vs, n))
    /\ pc' = "constructed"
    /\ UNCHANGED <<other, scene, build, err, apiErr>>

\* the same call on a file of the two-Model scenarios
ImportModelApi ==
    /\ pc = "idle"
    /\ \E t \in {TagSCM, TagMOD}, n \in 0..MaxBones, cs \in MeshCountLists(MaxApiObjects) :
          model' = NewModel(ApiFile(t, cs, n))
    /\ pc' = "constructed"
    /\ UNCHANGED <<other, scene, build, err, apiErr>>

\* Import: model.ParseObjects()
ImportParseObjects ==
    /\ pc = "constructed"
    /\ model' = ParseObjects(model)
    /\ pc' = "objects"
    /\ UNCHANGED <<other, scene, build, err, apiErr>>

\* Import: model.ParseMeshes()
ImportParseMeshes ==
    /\ pc = "objects"
    /\ model' = ParseMeshes(model, model).m
    /\ pc' = "meshes"
    /\ UNCHANGED <<other, scene, build, err, apiErr>>

\* Import: model.ParseVerts()
ImportParseVerts ==
    /\ pc = "meshes"
    /\ model' = ParseVerts(model)
    /\ pc' = "verts"
    /\ UNCHANGED <<other, scene, build, err, apiErr>>

\* Import: model.ParseSkeleton(); an exception leaves Import
ImportParseSkeleton ==
    /\ pc = "verts"
    /\ model' = ParseSkeleton(model).m
    /\ err' = ParseSkeleton(model).err
    /\ pc' = IF ParseSkeleton(model).err = "none" THEN "skeleton" ELSE "failed"
    /\ UNCHANGED <<other, scene, build, apiErr>>

\* setup_model: the collection is created and linked, the armature and its
\* object are created and linked
SetupCollection ==
    /\ pc = "skeleton"
    /\ scene' = [scene EXCEPT !.collections = @ + 1, !.armatures = @ + 1]
    /\ build' = NoBuild
    /\ pc' = "armature"
    /\ UNCHANGED <<model, other, err, apiErr>>

\* setup_model: bones = setup_bones(context, armature, joints, armature_object)
SetupBones ==
    /\ pc = "armature"
    /\ build' = [build EXCEPT !.bones = setup_bones(model.skeleton.bones).links]
    /\ err' = setup_bones(model.skeleton.bones).err
    /\ pc' = IF setup_bones(model.skeleton.bones).err = "none" THEN "bones" ELSE "failed"
    /\ UNCHANGED <<model, other, scene, apiErr>>

\* setup_model: objects = setup_objects(Mod, model_collection, armature_object);
\* every mesh object made before an exception stays linked
SetupObjects ==
    /\ pc = "bones"
    /\ build' = [build EXCEPT !.objects = setup_objects(model).objects,
                              !.made = setup_objects(model).made]
    /\ scene' = [scene EXCEPT !.meshObjects = @ + Len(setup_objects(model).made)]
    /\ err' = setup_objects(model).err
    /\ pc' = IF setup_objects(model).err = "none" THEN "linked" ELSE "failed"
    /\ UNCHANGED <<model, other, apiErr>>

\* setup_model: the child loop and the final rotation; Import returns
SetupChildren ==
    /\ pc = "linked"
    /\ build' = [build EXCEPT !.attached = setup_children(model, build.objects).attached]
    /\ err' = setup_children(model, build.objects).err
    /\ pc' = IF setup_children(model, build.objects).err = "none" THEN "done" ELSE "failed"
    /\ UNCHANGED <<model, other, scene, apiErr>>

\* ------------------------------------------------ calls outside Import
ImportNotRunning == pc \in {"idle", "done", "failed"}

\* other = Model(f)
ApiConstruct ==
    /\ ImportNotRunning
    /\ other = NoModel
    /\ \E t \in {TagSCM, TagMOD}, n \in 0..MaxBones, cs \in MeshCountLists(MaxApiObjects) :
          other' = NewModel(ApiFile(t, cs, n))
    /\ apiErr' = "none"
    /\ UNCHANGED <<pc, model, scene, build, err>>

CanParseObjects(m) ==
    /\ m # NoModel
    /\ m.objectCount > 0
    /\ Len(m.objects) + m.objectCount <= MaxParseCalls * m.objectCount

\* other.ParseObjects()
ApiParseObjectsOther ==
    /\ ImportNotRunning
    /\ CanParseObjects(other)
    /\ other' = ParseObjects(other)
    /\ apiErr' = "none"
    /\ UNCHANGED <<pc, model, scene, build, err>>

\* model.ParseObjects() on the Model the last Import left in the global
ApiParseObjectsModel ==
    /\ ImportNotRunning
    /\ CanParseObjects(model)
    /\ model' = ParseObjects(model)
    /\ apiErr' = "none"
    /\ UNCHANGED <<pc, other, scene, build, err>>

\* other.ParseMeshes(): Mesh.__init__ reads the global model
ApiParseMeshesOther ==
    /\ ImportNotRunning
    /\ other # NoModel
    /\ other' = ParseMeshes(other, model).m
    /\ apiErr' = ParseMeshes(other, model).err
    /\ UNCHANGED <<pc, model, scene, build, err>>

Import == ImportParseObjects \/ ImportParseMeshes \/ ImportParseVerts
              \/ ImportParseSkeleton

setup_model == SetupCollection \/ SetupBones \/ SetupObjects \/ SetupChildren

Next == ImportModel \/ Import \/ setup_model

Spec == Init /\ [][Next]_vars

NextApi ==
    \/ ImportModelApi \/ Import \/ setup_model
    \/ ApiConstruct \/ ApiParseObjectsOther \/ ApiParseObjectsModel
    \/ ApiParseMeshesOther

SpecApi == Init /\ [][NextApi]_vars

\* ------------------------------------------------------------- claims
SkeletonDecoded == model # NoModel /\ model.hasSkeleton

\* the Bone that bones[k] addresses
BoneAt(bones, k) == bones[PyIndex(k, Len(bones))]

MeshesOf(m) ==
    IF m = NoModel THEN {}
    ELSE UNION {{m.objects[i].meshes[j] : j \in 1..Len(m.objects[i].meshes)} :
                i \in 1..Len(m.objects)}

\* the offsets Mesh.__init__ is to record for a Model with tag id
VariantOffsets(id) ==
    IF id = TagSCM THEN {"uknOffs"} ELSE {"boneIndiciesOffs", "weightsOffs"}

\* the k-th ancestor of the bone with index b, NoIndex when the walk leaves
\* the bone list
RECURSIVE AncestorAt(_, _, _)
AncestorAt(bones, b, k) ==
    IF b < 0 \/ b >= Len(bones) THEN NoIndex
    ELSE IF k = 0 THEN b
    ELSE AncestorAt(bones, bones[b + 1].parent, k - 1)

HasCycle(bones) ==
    \E b \in 0..(Len(bones) - 1), k \in 1..Len(bones) : AncestorAt(bones, b, k) = b

\* C1 as claimed: after Skeleton decoding, for every i the bone at index
\* hierarchyOrder[i] has parent hierarchy[i].
C1_EveryEntryAssigned ==
    SkeletonDecoded =>
        \A i \in 1..Len(model.skeleton.hierarchyOrder) :
            BoneAt(model.skeleton.bones, model.skeleton.hierarchyOrder[i]).parent
                = model.skeleton.hierarchy[i]

\* C1 as amended: after Skeleton decoding, for every i whose bone no later
\* entry of hierarchyOrder addresses again, the bone at index
\* hierarchyOrder[i] has parent hierarchy[i] (the last entry for a bone
\* wins; every i when hierarchyOrder is a permutation), and every entry of
\* hierarchyOrder is a valid subscript of the bone list.
C1_LastEntryAssigned ==
    SkeletonDecoded =>
        LET sk == model.skeleton
            n == Len(sk.bones)
        IN  \A i \in 1..Len(sk.hierarchyOrder) :
                /\ InRange(sk.hierarchyOrder[i], n)
                /\ (\A j \in (i + 1)..Len(sk.hierarchyOrder) :
                      PyIndex(sk.hierarchyOrder[j], n) # PyIndex(sk.hierarchyOrder[i], n))
                   => BoneAt(sk.bones, sk.hierarchyOrder[i]).parent = sk.hierarchy[i]

C1_Witness ==
    /\ SkeletonDecoded
    /\ model.skeleton.hierarchy = <<0, 0 - 1>>
    /\ model.skeleton.hierarchyOrder = <<1, 0>>
    /\ model.skeleton.bones[2].parent = 0
    /\ model.skeleton.bones[1].parent = 0 - 1

\* C2: a parent graph in which some bone is its own ancestor never yields
\* a Skeleton: the decode ends in the CyclicHierarchy error instead.
C2_CycleDetected == SkeletonDecoded => ~HasCycle(model.skeleton.bones)

\* C3: every bone of a Skeleton ParseSkeleton produced has a parent that is
\* the root sentinel or a bone index in 0..boneCount-1.
C3_ParentsValid ==
    SkeletonDecoded =>
        \A k \in 1..Len(model.skeleton.bones) :
            \/ model.skeleton.bones[k].parent = NoIndex
            \/ model.skeleton.bones[k].parent \in 0..(model.skeleton.boneCount - 1)

\* C4: a header whose tag is not one of the two recognized values ends the
\* decode with MalformedHeader, before any object is decoded.
C4_MalformedHeader ==
    (model # NoModel /\ model.Id \notin {TagSCM, TagMOD}) =>
        /\ pc = "failed"
        /\ err = "MalformedHeader"
        /\ model.objects = <<>>

\* C5: in an Import run every Mesh records exactly the offsets of the
\* variant its Model's tag selects, and every mesh object is built on the
\* path of that variant: baked offset and vertex colours for "SCM ", bone
\* index and weight offsets and weight painting for any other tag.
C5_DispatchExclusive ==
    model # NoModel =>
        /\ \A msh \in MeshesOf(model) :
              IF model.Id = TagSCM
              THEN "uknOffs" \in msh.offs
                   /\ msh.offs \cap {"boneIndiciesOffs", "weightsOffs"} = {}
              ELSE {"boneIndiciesOffs", "weightsOffs"} \subseteq msh.offs
                   /\ "uknOffs" \notin msh.offs
        /\ \A k \in 1..Len(build.made) :
              build.made[k].path = IF model.Id = TagSCM THEN "colour" ELSE "weights"

C5_Witness ==
    /\ pc = "done"
    /\ model.Id = TagSCM
    /\ Len(build.made) >= 2
    /\ \A k \in 1..Len(build.made) : build.made[k].path = "colour"
    /\ \E msh \in MeshesOf(model) : msh.offs = {"uknOffs"}

\* C6: a failed Import leaves the host scene as it was before the call.
C6_FailsAtomically == pc = "failed" => scene = EmptyScene

\* C7: the object attached to a bone whose child-object index is c is the
\* one built from the Object at position c of the object table.
C7_ChildByTableIndex ==
    (pc = "done" /\ model.Id # TagMOD) =>
        \A i \in 1..Len(model.skeleton.childIndices) :
            model.skeleton.childIndices[i] # NoIndex
            => build.attached[i] = model.skeleton.childIndices[i]

\* C8: every Mesh is decoded with the tag and the bone count of the Model
\* that owns its Object.
MeshesFollow(m) ==
    \A msh \in MeshesOf(m) :
        msh.offs = VariantOffsets(m.Id) /\ Len(msh.vertGrp) = Max(m.boneCount, 0)

C8_MeshFollowsOwner == MeshesFollow(model) /\ MeshesFollow(other)

\* C9: once ParseObjects has completed on a Model, however often,
\* Model.objects holds objectCount Objects, objects[i] with index i, read
\* from byte offset 0x40 + 64*i.
ObjectsInTableOrder(m) ==
    (m # NoModel /\ m.objects # <<>>) =>
        /\ Len(m.objects) = m.objectCount
        /\ \A i \in 1..Len(m.objects) :
              /\ m.objects[i].objectIdx = i - 1
              /\ m.objects[i].recOffs = 64 + 64 * (i - 1)
              /\ m.objects[i].meshCount = m.f.recs[i].meshCount

C9_ObjectsInTableOrder == ObjectsInTableOrder(model) /\ ObjectsInTableOrder(other)

\* C10 as claimed: after Mesh header decoding and before ParseVerts every
\* payload buffer of every Mesh is empty and vertGrp has boneCount unset
\* entries.
BuffersEmpty(msh) ==
    /\ msh.normals = <<>> /\ msh.UVs = <<>>
    /\ msh.boneIndicies = <<>> /\ msh.boneWeights = <<>>
    /\ msh.vertColour = <<>> /\ msh.triSkip = <<>> /\ msh.faces = <<>>

GroupsUnset(msh, boneCount) ==
    /\ Len(msh.vertGrp) = Max(boneCount, 0)
    /\ \A k \in 1..Len(msh.vertGrp) : msh.vertGrp[k] = "None"

C10_AllBuffersEmpty ==
    pc = "meshes" =>
        \A msh \in MeshesOf(model) :
            msh.positions = <<>> /\ BuffersEmpty(msh) /\ GroupsUnset(msh, model.boneCount)

\* C10 as amended: after Mesh header decoding and before ParseVerts every
\* payload buffer but positions is empty, positions holds vertCount
\* placeholders (none for a vertCount below 1) and vertGrp has boneCount
\* unset entries.
C10_BuffersButPositionsEmpty ==
    pc = "meshes" =>
        \A msh \in MeshesOf(model) :
            /\ Len(msh.positions) = Max(msh.vertCount, 0)
            /\ \A k \in 1..Len(msh.positions) : msh.positions[k] = "Vector"
            /\ BuffersEmpty(msh)
            /\ GroupsUnset(msh, model.boneCount)

C10_Witness ==
    /\ pc = "meshes"
    /\ model.boneCount = 2
    /\ \E msh \in MeshesOf(model) :
          msh.vertCount = 1 /\ Len(msh.positions) = 1 /\ Len(msh.vertGrp) = 2

=============================================================================
